---- MODULE Spec2Model ----
(***************************************************************************)
(* A model of chessmate's MiniMax engine (src/chessmate/engines.py) with   *)
(* its collaborators: the MVV_LVA move ordering, the Zobrist fingerprint,  *)
(* the transposition table and the material evaluation.  The rules engine  *)
(* (python-chess) is modelled on a NumRanks x NumFiles board with the      *)
(* standard moves of king, queen, rook, bishop, knight and pawn (single    *)
(* step, diagonal capture, promotion, en passant from the position's       *)
(* ep_square), without castling or the pawn's double step.                 *)
(***************************************************************************)
EXTENDS Integers, Sequences, FiniteSets, TLC

\* ------------------------------------------------------------------ bounds
NumRanks == 3
NumFiles == 3
MaxDepth == 2
MaxCalls == 2
MaxGames == 2
MaxPlies == 3

\* ------------------------------------------------------- program constants
\* float("inf"): above every score the evaluation can produce
Inf == 1000000
HashBits == 64

Squares == 0 .. (NumRanks * NumFiles - 1)
Ranks == 0 .. (NumRanks - 1)
Files == 0 .. (NumFiles - 1)

WHITE == TRUE
BLACK == FALSE

\* chess.square(file, rank), chess.square_rank, chess.square_file
square(f, r) == r * NumFiles + f
square_rank(sq) == sq \div NumFiles
square_file(sq) == sq % NumFiles

WhiteSymbols == {"P", "N", "B", "R", "Q", "K"}
BlackSymbols == {"p", "n", "b", "r", "q", "k"}
Symbols == WhiteSymbols \cup BlackSymbols
NoPiece == ""

\* str.upper() on a piece symbol
Upper(sym) ==
    CASE sym \in {"P", "p"} -> "P"
      [] sym \in {"N", "n"} -> "N"
      [] sym \in {"B", "b"} -> "B"
      [] sym \in {"R", "r"} -> "R"
      [] sym \in {"Q", "q"} -> "Q"
      [] sym \in {"K", "k"} -> "K"
      [] OTHER -> ""

\* chess.Piece.symbol(): upper case for White, lower case for Black
Symbol(type, c) ==
    IF c THEN type
    ELSE CASE type = "P" -> "p" [] type = "N" -> "n" [] type = "B" -> "b"
           [] type = "R" -> "r" [] type = "Q" -> "q" [] type = "K" -> "k"

\* board.color_at(square) for an occupied square
ColorOf(sym) == sym \in WhiteSymbols

\* chess.Move.null(), "0000"
NullMove == [from_square |-> 0, to_square |-> 0, promotion |-> ""]

Move(f, t) == [from_square |-> f, to_square |-> t, promotion |-> ""]
PromotionMove(f, t, p) == [from_square |-> f, to_square |-> t, promotion |-> p]

\* ---------------------------------------------------------- small helpers
SetMax(S) == CHOOSE x \in S : \A y \in S : y <= x

\* scan_reversed: the squares of a set, highest first
RECURSIVE ScanReversed(_)
ScanReversed(S) ==
    IF S = {} THEN <<>>
    ELSE LET m == SetMax(S) IN <<m>> \o ScanReversed(S \ {m})

RECURSIVE Flatten(_)
Flatten(ss) == IF ss = <<>> THEN <<>> ELSE Head(ss) \o Flatten(Tail(ss))

SeqMap(Op(_), s) == [i \in 1 .. Len(s) |-> Op(s[i])]

RECURSIVE SeqFilter(_, _)
SeqFilter(Test(_), s) ==
    IF s = <<>> THEN <<>>
    ELSE IF Test(Head(s)) THEN <<Head(s)>> \o SeqFilter(Test, Tail(s))
    ELSE SeqFilter(Test, Tail(s))

Range(s) == {s[i] : i \in 1 .. Len(s)}

\* ------------------------------------------------- rules engine: attacks
OnBoard(r, f) == r \in Ranks /\ f \in Files

KingOffsets == {<<dr, df>> : dr \in -1 .. 1, df \in -1 .. 1} \ {<<0, 0>>}
KnightOffsets ==
    {<<1, 2>>, <<2, 1>>, <<-1, 2>>, <<-2, 1>>,
     <<1, -2>>, <<2, -1>>, <<-1, -2>>, <<-2, -1>>}
RookDirections == {<<1, 0>>, <<-1, 0>>, <<0, 1>>, <<0, -1>>}
BishopDirections == {<<1, 1>>, <<1, -1>>, <<-1, 1>>, <<-1, -1>>}

StepTargets(sq, offsets) ==
    {square(square_file(sq) + o[2], square_rank(sq) + o[1]) :
        o \in {x \in offsets :
                 OnBoard(square_rank(sq) + x[1], square_file(sq) + x[2])}}

\* the squares a slider reaches from (r, f) in direction d, the first
\* occupied square included
RECURSIVE RayFrom(_, _, _, _)
RayFrom(pieces, r, f, d) ==
    LET r2 == r + d[1]
        f2 == f + d[2]
    IN IF ~OnBoard(r2, f2) THEN {}
       ELSE IF pieces[square(f2, r2)] # NoPiece THEN {square(f2, r2)}
       ELSE {square(f2, r2)} \cup RayFrom(pieces, r2, f2, d)

SlideTargets(pieces, sq, dirs) ==
    UNION {RayFrom(pieces, square_rank(sq), square_file(sq), d) : d \in dirs}

PawnAttacks(c, sq) ==
    StepTargets(sq, IF c THEN {<<1, -1>>, <<1, 1>>} ELSE {<<-1, -1>>, <<-1, 1>>})

\* chess.Board.attacks_mask(square)
attacks_mask(pieces, sq) ==
    LET t == Upper(pieces[sq]) IN
    CASE t = "P" -> PawnAttacks(ColorOf(pieces[sq]), sq)
      [] t = "N" -> StepTargets(sq, KnightOffsets)
      [] t = "K" -> StepTargets(sq, KingOffsets)
      [] t = "R" -> SlideTargets(pieces, sq, RookDirections)
      [] t = "B" -> SlideTargets(pieces, sq, BishopDirections)
      [] t = "Q" -> SlideTargets(pieces, sq, RookDirections \cup BishopDirections)
      [] OTHER -> {}

occupied_co(pieces, c) ==
    {s \in Squares : pieces[s] # NoPiece /\ ColorOf(pieces[s]) = c}

is_attacked_by(pieces, c, sq) ==
    \E s \in occupied_co(pieces, c) : sq \in attacks_mask(pieces, s)

KingSquares(pieces, c) == {s \in Squares : pieces[s] = Symbol("K", c)}

\* the side c has a king and it is attacked
InCheck(pieces, c) ==
    \E k \in KingSquares(pieces, c) : is_attacked_by(pieces, ~c, k)

\* ---------------------------------------------------- rules engine: moves
PromotionRank(to) == square_rank(to) \in {0, NumRanks - 1}

\* a pawn move to `to`: the four promotions on a back rank, else the move
PawnMoves(f, t) ==
    IF PromotionRank(t)
    THEN <<PromotionMove(f, t, "q"), PromotionMove(f, t, "r"),
           PromotionMove(f, t, "b"), PromotionMove(f, t, "n")>>
    ELSE <<Move(f, t)>>

\* board.is_en_passant(move)
is_en_passant(b, m) ==
    /\ b.ep_square = m.to_square
    /\ Upper(b.pieces[m.from_square]) = "P"
    /\ square_file(m.from_square) # square_file(m.to_square)
    /\ b.pieces[m.to_square] = NoPiece

\* board.is_capture(move)
is_capture(b, m) ==
    \/ (b.pieces[m.to_square] # NoPiece
        /\ ColorOf(b.pieces[m.to_square]) # b.turn)
    \/ is_en_passant(b, m)

\* the piece placement after the move
PiecesAfter(b, m) ==
    LET mover == b.pieces[m.from_square]
        placed == IF m.promotion = "" THEN mover
                  ELSE Symbol(Upper(m.promotion), ColorOf(mover))
        taken == IF is_en_passant(b, m)
                 THEN {square(square_file(m.to_square), square_rank(m.from_square))}
                 ELSE {}
    IN [s \in Squares |->
          IF s = m.to_square THEN placed
          ELSE IF s = m.from_square \/ s \in taken THEN NoPiece
          ELSE b.pieces[s]]

\* chess.Board.generate_pseudo_legal_moves, in its generation order: piece
\* moves, pawn captures, pawn advances, en passant
PieceMovesFrom(b, f) ==
    SeqMap(LAMBDA t : Move(f, t),
           ScanReversed(attacks_mask(b.pieces, f) \ occupied_co(b.pieces, b.turn)))

PawnCapturesFrom(b, f) ==
    Flatten(SeqMap(LAMBDA t : PawnMoves(f, t),
                   ScanReversed(PawnAttacks(b.turn, f)
                                \cap occupied_co(b.pieces, ~b.turn))))

Forward(c) == IF c THEN 1 ELSE -1

generate_pseudo_legal_moves(b, from_mask) ==
    LET ours == occupied_co(b.pieces, b.turn) \cap from_mask
        pawns == {s \in ours : Upper(b.pieces[s]) = "P"}
        non_pawns == ours \ pawns
        single_moves ==
            {t \in Squares :
               /\ b.pieces[t] = NoPiece
               /\ \E s \in pawns : /\ square_file(s) = square_file(t)
                                   /\ square_rank(t) = square_rank(s) + Forward(b.turn)}
        capturers ==
            IF b.ep_square \in Squares /\ b.pieces[b.ep_square] = NoPiece
            THEN {s \in pawns : b.ep_square \in PawnAttacks(b.turn, s)}
            ELSE {}
    IN Flatten(SeqMap(LAMBDA f : PieceMovesFrom(b, f), ScanReversed(non_pawns)))
       \o Flatten(SeqMap(LAMBDA f : PawnCapturesFrom(b, f), ScanReversed(pawns)))
       \o Flatten(SeqMap(LAMBDA t : PawnMoves(t - Forward(b.turn) * NumFiles, t),
                         ScanReversed(single_moves)))
       \o SeqMap(LAMBDA f : Move(f, b.ep_square), ScanReversed(capturers))

\* chess.Board._is_safe: the move does not leave the mover's king attacked
is_safe(b, m) == ~InCheck(PiecesAfter(b, m), b.turn)

\* list(board.legal_moves): in check the king's moves come first
\* (chess.Board._generate_evasions)
legal_moves(b) ==
    LET kings == KingSquares(b.pieces, b.turn)
        pseudo ==
            IF InCheck(b.pieces, b.turn)
            THEN generate_pseudo_legal_moves(b, kings)
                 \o generate_pseudo_legal_moves(b, Squares \ kings)
            ELSE generate_pseudo_legal_moves(b, Squares)
    IN SeqFilter(LAMBDA m : is_safe(b, m), pseudo)

\* chess.Board.has_insufficient_material(color)
has_insufficient_material(pieces, c) ==
    LET ours == occupied_co(pieces, c)
        types(S) == {Upper(pieces[s]) : s \in S}
        bishops == {s \in Squares : Upper(pieces[s]) = "B"}
        shade(s) == (square_rank(s) + square_file(s)) % 2
    IN IF types(ours) \cap {"P", "R", "Q"} # {} THEN FALSE
       ELSE IF "N" \in types(ours)
       THEN /\ Cardinality(ours) <= 2
            /\ types(occupied_co(pieces, ~c)) \subseteq {"K", "Q"}
       ELSE IF "B" \in types(ours)
       THEN /\ Cardinality({shade(s) : s \in bishops}) <= 1
            /\ types(Squares \ {s \in Squares : pieces[s] = NoPiece})
                 \cap {"P", "N"} = {}
       ELSE TRUE

\* board.is_game_over(): checkmate, stalemate or insufficient material (the
\* seventy-five-move and fivefold-repetition draws lie beyond MaxCalls)
is_game_over(b) ==
    \/ legal_moves(b) = <<>>
    \/ /\ has_insufficient_material(b.pieces, WHITE)
       /\ has_insufficient_material(b.pieces, BLACK)

\* board.push(move) / board.push_uci(str(move))
push(b, m) ==
    [pieces |-> PiecesAfter(b, m),
     turn |-> ~b.turn,
     ep_square |-> -1,
     stack |-> Append(b.stack, [move |-> m, pieces |-> b.pieces,
                                turn |-> b.turn, ep_square |-> b.ep_square])]

\* board.pop(): restores the position before the last move
pop(b) ==
    LET top == b.stack[Len(b.stack)] IN
    [pieces |-> top.pieces,
     turn |-> top.turn,
     ep_square |-> top.ep_square,
     stack |-> SubSeq(b.stack, 1, Len(b.stack) - 1)]

\* the move board.pop() returns
popped_move(b) == b.stack[Len(b.stack)].move


\* ------------------------------------------------------------ evaluation
\* CONVENTIONAL_PIECE_VALUES, the values StandardEvaluation sums
CONVENTIONAL_PIECE_VALUES(type) ==
    CASE type = "P" -> 1 [] type = "N" -> 3 [] type = "B" -> 3
      [] type = "R" -> 5 [] type = "Q" -> 9 [] type = "K" -> 999

\* ConventionalPieceValues, the values MVV_LVA ranks captures by
ConventionalPieceValues(type) ==
    CASE type = "P" -> 100 [] type = "N" -> 350 [] type = "B" -> 350
      [] type = "R" -> 525 [] type = "Q" -> 1000 [] type = "K" -> 99999

RECURSIVE SumOver(_, _)
SumOver(F(_), S) ==
    IF S = {} THEN 0
    ELSE LET x == CHOOSE y \in S : TRUE IN F(x) + SumOver(F, S \ {x})

\* a variant of SignedValue: Black's pieces are not negated
UnsignedValue(pieces, sq) == CONVENTIONAL_PIECE_VALUES(Upper(pieces[sq]))

\* the signed value of the piece on an occupied square
SignedValue(pieces, sq) ==
    LET piece_value == CONVENTIONAL_PIECE_VALUES(Upper(pieces[sq]))
    IN IF ~ColorOf(pieces[sq]) THEN -piece_value ELSE piece_value

\* StandardEvaluation.evaluate(board)
StandardEvaluation(b) ==
    SumOver(LAMBDA sq : SignedValue(b.pieces, sq),
            {sq \in Squares : b.pieces[sq] # NoPiece})

\* ConventionalPieceTable: table[rank][file] from White's side, table[0] is
\* rank 1 (the tuples are indexed from 1)
ConventionalPieceTable(type) ==
    CASE type = "P" ->
           <<<<0, 0, 0, 0, 0, 0, 0, 0>>,
             <<5, 10, 10, -20, -20, 10, 10, 5>>,
             <<5, -5, -10, 0, 0, -10, -5, 5>>,
             <<0, 0, 0, 20, 20, 0, 0, 0>>,
             <<5, 5, 10, 25, 25, 10, 5, 5>>,
             <<10, 10, 20, 30, 30, 20, 10, 10>>,
             <<50, 50, 50, 50, 50, 50, 50, 50>>,
             <<0, 0, 0, 0, 0, 0, 0, 0>>>>
      [] type = "N" ->
           <<<<-50, -40, -30, -30, -30, -30, -40, -50>>,
             <<-40, -20, 0, 5, 5, 0, -20, -40>>,
             <<-30, 5, 10, 15, 15, 1, 5, -30>>,
             <<-30, 0, 15, 20, 20, 15, 0, -30>>,
             <<-30, 0, 15, 20, 20, 15, 0, -30>>,
             <<-30, 5, 10, 15, 15, 1, 5, -30>>,
             <<-40, -20, 0, 5, 5, 0, -20, -40>>,
             <<-50, -40, -30, -30, -30, -30, -40, -50>>>>
      [] type = "B" ->
           <<<<-20, -10, -10, -10, -10, -10, -10, -20>>,
             <<-10, 5, 0, 0, 0, 0, 5, -10>>,
             <<-10, 10, 10, 10, 10, 10, 10, -10>>,
             <<-10, 0, 10, 10, 10, 5, 5, -10>>,
             <<-10, 5, 5, 10, 10, 5, 5, -10>>,
             <<-10, 0, 5, 10, 10, 5, 0, -10>>,
             <<-10, 0, 0, 0, 0, 0, 0, -10>>,
             <<-20, -10, -10, -10, -10, -10, -10, -20>>>>
      [] type = "R" ->
           <<<<0, 0, 0, 5, 5, 0, 0, 0>>,
             <<-5, 0, 0, 0, 0, 0, 0, -5>>,
             <<-5, 0, 0, 0, 0, 0, 0, -5>>,
             <<-5, 0, 0, 0, 0, 0, 0, -5>>,
             <<-5, 0, 0, 0, 0, 0, 0, -5>>,
             <<-5, 0, 0, 0, 0, 0, 0, -5>>,
             <<5, 10, 10, 10, 10, 10, 10, 5>>,
             <<0, 0, 0, 0, 0, 0, 0, 0>>>>
      [] type = "Q" ->
           <<<<-20, -10, -10, -5, -5, -10, -10, -20>>,
             <<-10, 0, 5, 0, 0, 0, 0, -10>>,
             <<-10, 5, 5, 5, 5, 5, 0, -10>>,
             <<0, 0, 5, 5, 5, 5, 0, -5>>,
             <<-5, 0, 5, 5, 5, 5, 0, -5>>,
             <<-10, 0, 5, 5, 5, 0, 0, -10>>,
             <<-10, 0, 0, 0, 0, 0, 0, -10>>,
             <<-20, -10, -10, -5, -5, -10, -10, -20>>>>
      [] type = "K" ->
           <<<<20, 30, 10, 0, 0, 10, 30, 20>>,
             <<20, 20, 0, 0, 0, 0, 20, 20>>,
             <<-10, -20, -20, -20, -20, -20, -20, -10>>,
             <<-20, -30, -30, -40, -40, -30, -30, -20>>,
             <<-30, -40, -40, -50, -50, -40, -40, -30>>,
             <<-30, -40, -40, -50, -50, -40, -40, -30>>,
             <<-30, -40, -40, -50, -50, -40, -40, -30>>,
             <<-30, -40, -40, -50, -50, -40, -40, -30>>>>

\* the part of a piece's table that lies on the board
piece_value_tables(type) ==
    [y \in Ranks |-> [x \in Files |-> ConventionalPieceTable(type)[y + 1][x + 1]]]

\* np.rot90(t, 2): the table turned by 180 degrees
rot90_twice(t) ==
    [y \in Ranks |-> [x \in Files |-> t[NumRanks - 1 - y][NumFiles - 1 - x]]]

\* get_piece_value_from_table(piece_sym, piece_color, position,
\* piece_value_tables)
get_piece_value_from_table(piece_sym, piece_color, position) ==
    LET piece_table == IF ~piece_color
                       THEN rot90_twice(piece_value_tables(Upper(piece_sym)))
                       ELSE piece_value_tables(Upper(piece_sym))
        y == IF ~piece_color THEN NumRanks - 1 - square_rank(position)
             ELSE square_rank(position)
        x == IF ~piece_color THEN NumFiles - 1 - square_file(position)
             ELSE square_file(position)
    IN piece_table[y][x]

\* PieceValueEvaluation.evaluate(board): the value of each piece with its
\* table value, negated for Black
PieceValueEvaluation(b) ==
    LET piece_value(sq) ==
            CONVENTIONAL_PIECE_VALUES(Upper(b.pieces[sq]))
            + get_piece_value_from_table(
                Upper(b.pieces[sq]), ColorOf(b.pieces[sq]), sq)
        signed(sq) == IF ~ColorOf(b.pieces[sq]) THEN -piece_value(sq)
                      ELSE piece_value(sq)
    IN SumOver(signed, {sq \in Squares : b.pieces[sq] # NoPiece})

\* ------------------------------------------------------------- heuristics
\* get_piece_at(board, position): the symbol on the square, "" when empty
get_piece_at(b, sq) == b.pieces[sq]

\* value_diff of a capturing move: value(victim) - value(aggressor)
ValueDiff(b, m, piece_values(_)) ==
    piece_values(Upper(get_piece_at(b, m.to_square)))
      - piece_values(Upper(get_piece_at(b, m.from_square)))

\* the captures MVV_LVA files under a value_diff: is_capture holds and both
\* the aggressor's and the victim's square hold a piece
RankedCapture(b, m) ==
    /\ is_capture(b, m)
    /\ get_piece_at(b, m.from_square) # NoPiece
    /\ get_piece_at(b, m.to_square) # NoPiece

\* a variant of MVV_LVA: the sorted captures are returned even when there
\* are none
SortedCapturesOnly(b) ==
    LET move_list == legal_moves(b)
        captures == SeqFilter(LAMBDA m : RankedCapture(b, m), move_list)
        diff(m) == ValueDiff(b, m, ConventionalPieceValues)
        available_captures == {diff(m) : m \in Range(captures)}
    IN [moves |-> Flatten(SeqMap(
                    LAMBDA d : SeqFilter(LAMBDA m : diff(m) = d, captures),
                    ScanReversed(available_captures))),
        shuffled |-> FALSE]

\* MVV_LVA(board): the ranked captures by descending value_diff when there
\* are any, else the legal moves, shuffled
MVV_LVA(b) ==
    LET move_list == legal_moves(b)
        captures == SeqFilter(LAMBDA m : RankedCapture(b, m), move_list)
        diff(m) == ValueDiff(b, m, ConventionalPieceValues)
        available_captures == {diff(m) : m \in Range(captures)}
    IN IF available_captures # {}
       THEN [moves |-> Flatten(SeqMap(
                         LAMBDA d : SeqFilter(LAMBDA m : diff(m) = d, captures),
                         ScanReversed(available_captures))),
             shuffled |-> FALSE]
       ELSE [moves |-> move_list, shuffled |-> TRUE]

\* ---------------------------------------------------------- transpositions
\* a variant of PIECE_INDEXING: the index of the piece type, whatever the
\* color
TypeIndexing(sym) ==
    CASE Upper(sym) = "P" -> 0 [] Upper(sym) = "N" -> 2 [] Upper(sym) = "B" -> 4
      [] Upper(sym) = "R" -> 6 [] Upper(sym) = "Q" -> 8 [] Upper(sym) = "K" -> 10

PIECE_INDEXING(sym) ==
    CASE sym = "P" -> 0 [] sym = "p" -> 1 [] sym = "N" -> 2 [] sym = "n" -> 3
      [] sym = "B" -> 4 [] sym = "b" -> 5 [] sym = "R" -> 6 [] sym = "r" -> 7
      [] sym = "Q" -> 8 [] sym = "q" -> 9 [] sym = "K" -> 10 [] sym = "k" -> 11

\* A HashBits-bit integer is the set of its one-bits; ^ is the symmetric
\* difference
Xor(x, y) == (x \ y) \cup (y \ x)

\* a table random.randint(1, 2 ** 64 - 1) can draw: every entry is non-zero.
\* Entry k = 12 * square + piece_idx holds piece_idx + 1 in the four bits of
\* its square, so that no two placements of the board share a fingerprint
TableEntry(k) ==
    {(4 * (k \div 12) + j) % HashBits :
        j \in {i \in 0 .. 3 : (((k % 12) + 1) \div (2 ^ i)) % 2 = 1}}

DrawnTable ==
    [r \in Ranks |-> [f \in Files |-> [i \in 0 .. 11 |->
        TableEntry(square(f, r) * 12 + i)]]]

HashTables == {DrawnTable}

\* zobrist_hash_function(board, hash_table)
RECURSIVE ZobristFrom(_, _, _)
ZobristFrom(b, hash_table, sq) ==
    IF sq \notin Squares THEN {}
    ELSE LET piece == get_piece_at(b, sq)
             rest == ZobristFrom(b, hash_table, sq + 1)
         IN IF piece # NoPiece
            THEN Xor(hash_table[square_rank(sq)][square_file(sq)]
                               [PIECE_INDEXING(piece)], rest)
            ELSE rest

\* a variant of zobrist_hash_function: the side to move is hashed in
ZobristWithTurn(b, hash_table) ==
    Xor(ZobristFrom(b, hash_table, 0), IF b.turn THEN {HashBits - 1} ELSE {})

zobrist_hash_function(b, hash_table) == ZobristFrom(b, hash_table, 0)

\* TranspositionTable.hash_current_board(board)
hash_current_board(e, b) == zobrist_hash_function(b, e.hash_table)

\* a variant of Contains: no fingerprint is found in the table
NeverContains(e, hash_) == FALSE

\* TranspositionTable.__contains__(hash_)
Contains(e, hash_) == hash_ \in DOMAIN e.stored_values

\* a variant of Store: a fingerprint keeps the value it was first given
StoreOnce(stored_values, hash_, val) ==
    [h \in DOMAIN stored_values \cup {hash_} |->
        IF h \in DOMAIN stored_values THEN stored_values[h] ELSE val]

\* stored_values[hash_] = val
Store(stored_values, hash_, val) ==
    [h \in DOMAIN stored_values \cup {hash_} |->
        IF h = hash_ THEN val ELSE stored_values[h]]


\* ------------------------------------------------------------------ state
VARIABLES
    board,          \* the caller's chess.Board, handed to move() by reference
    engine,         \* the MiniMax engine
    twin,           \* a second MiniMax engine, driven with the same calls
    paired,         \* whether the caller drives the twin as well
    active,         \* 0: no call in progress; 1: engine searching; 2: twin
    result,         \* what the last operation on engine returned or raised
    twin_result,    \* what the last move() on twin returned or raised
    calls,          \* number of move() calls made so far
    board_at_call,  \* history: the position as it was handed to move()
    assigned_at,    \* history: the best_move assignments of the engine's call
    other,          \* a second chess.Board of a caller of the library functions
    lib,            \* what the library functions returned when called directly
    playground      \* a ChessPlayground whose board is board

vars == <<board, engine, twin, paired, active, result, twin_result, calls,
          board_at_call, assigned_at, other, lib, playground>>

\* chess.Board(fen): the placement as a set of <<file, rank, symbol>>
Board(placement, turn, ep) ==
    [pieces |-> [s \in Squares |->
                   IF \E x \in placement : square(x[1], x[2]) = s
                   THEN (CHOOSE x \in placement : square(x[1], x[2]) = s)[3]
                   ELSE NoPiece],
     turn |-> turn,
     ep_square |-> ep,
     stack |-> <<>>]

\* values a caller can give for color: chess.WHITE, chess.BLACK, "white"
ColorArgs == {"True", "False", "white"}

\* a variant of IsBool: every color passes the check
AnyColor(c) == TRUE

\* isinstance(color, bool)
IsBool(c) == c \in {"True", "False"}

\* the truth value of a color
Truthy(c) == c # "False"

\* MiniMax.__init__(color, depth)
NewMiniMax(color, depth, hash_table) ==
    [color |-> color,
     depth |-> depth,
     best_move |-> NullMove,
     alpha_beta_pruning |-> TRUE,
     alpha |-> -Inf,
     beta |-> Inf,
     move_ordering |-> TRUE,
     hash_table |-> hash_table,
     stored_values |-> <<>>,
     material_difference |-> <<>>,
     frames |-> <<>>]

NoResult ==
    [op |-> "none", raised |-> "", move |-> NullMove,
     arg |-> [type |-> "none", val |-> 0]]

\* nothing returned yet by a direct call of MVV_LVA, zobrist_hash_function,
\* StandardEvaluation.evaluate or the transposition table; hash and eval
\* hold the output for board and for other
NoCalls ==
    [ordered |-> [done |-> FALSE, val |-> <<>>],
     hash |-> <<[done |-> FALSE, val |-> {}], [done |-> FALSE, val |-> {}]>>,
     eval |-> <<[done |-> FALSE, val |-> 0], [done |-> FALSE, val |-> 0]>>,
     placed |-> <<[done |-> FALSE, val |-> 0], [done |-> FALSE, val |-> 0]>>,
     bonus |-> [done |-> FALSE, sq |-> 0, val |-> 0],
     lookup |-> [done |-> FALSE, on |-> 1, hash_ |-> {}, hit |-> FALSE,
                 val |-> 0, len |-> 0],
     stores |-> <<>>]

\* the engine whose call is in progress
Cur == IF active = 2 THEN twin ELSE engine

\* one frame of minimax(base_board, maximizing, depth, alpha, beta); hit
\* tells which branch of lines 441 and 478 the last move took
Frame(maximizing, depth, alpha, beta) ==
    [maximizing |-> maximizing, depth |-> depth, alpha |-> alpha, beta |-> beta,
     pc |-> "enter", best_val |-> 0, legal_moves |-> <<>>,
     move |-> NullMove, hash_ |-> {}, val |-> 0, hit |-> FALSE]

Top(e) == e.frames[Len(e.frames)]

SetTop(e, fr) == [e EXCEPT !.frames[Len(e.frames)] = fr]


\* --------------------------------------------------------- MiniMax.minimax
Max(x, y) == IF x >= y THEN x ELSE y
Min(x, y) == IF x <= y THEN x ELSE y

\* a variant of IsLeaf: a finished game is searched on while depth remains
DepthExhausted(depth, b) == depth = 0

\* a variant of IsLeaf: the search stops one ply early
LeafAtDepthOne(depth, b) == depth = 1 \/ is_game_over(b)

\* line 421: depth == 0 or base_board.is_game_over()
IsLeaf(depth, b) == depth = 0 \/ is_game_over(b)

\* lines 430-434 and 469-473: the ordered moves, or the shuffled legal moves
OrderedMoves(e, b) ==
    IF e.move_ordering THEN MVV_LVA(b)
    ELSE [moves |-> legal_moves(b), shuffled |-> TRUE]

\* random.shuffle(move_list): the orders drawn are the rotations of the list,
\* so that every move can come first; the twin of a pair is given the order
\* its engine got, the enumeration order
Rotate(moves, k) == SubSeq(moves, k + 1, Len(moves)) \o SubSeq(moves, 1, k)

Shuffles(ordered) ==
    IF ordered.shuffled /\ ~paired
    THEN {Rotate(ordered.moves, k) : k \in 0 .. (Len(ordered.moves) - 1)}
    ELSE {ordered.moves}

\* the moves of the `for move in legal_moves` loop still to visit once the
\* next one has been taken
Remaining(moves) == Tail(moves)

\* a variant of ChildDepth: the recursive call is handed the depth it was
\* given
SameDepth(depth) == depth

\* lines 446 and 482: the depth handed to the recursive call
ChildDepth(depth) == depth - 1

\* a variant of Improves: a value equal to the running best counts
ImprovesOrTies(fr) ==
    IF fr.maximizing THEN fr.val >= fr.best_val ELSE fr.val <= fr.best_val

\* lines 452 and 487: val > max_val, val < min_val
Improves(fr) ==
    IF fr.maximizing THEN fr.val > fr.best_val ELSE fr.val < fr.best_val

\* a variant of KeepsBestMove: the move is kept where no depth remains
\* instead of at the root
KeepsAtLeaf(e, fr) ==
    /\ IF fr.maximizing THEN Truthy(e.color) ELSE ~Truthy(e.color)
    /\ fr.depth = 0

\* a variant of KeepsBestMove: the move is kept at every ply, by either
\* branch
KeepsAtEveryPly(e, fr) == fr.depth <= e.depth

\* lines 456 and 489: the move is kept as best_move
KeepsBestMove(e, fr) ==
    /\ IF fr.maximizing THEN Truthy(e.color) ELSE ~Truthy(e.color)
    /\ fr.depth = e.depth

\* lines 460 and 492: alpha = max(alpha, val), beta = min(beta, val)
NewAlpha(e, fr) ==
    IF e.alpha_beta_pruning /\ fr.maximizing THEN Max(fr.alpha, fr.val)
    ELSE fr.alpha

NewBeta(e, fr) ==
    IF e.alpha_beta_pruning /\ ~fr.maximizing THEN Min(fr.beta, fr.val)
    ELSE fr.beta

\* lines 461 and 493: if beta <= alpha: break
Cutoff(e, alpha, beta) == e.alpha_beta_pruning /\ beta <= alpha

\* a variant of Undo: the applied move is left on the board
LeaveMove(b) == b

\* lines 450 and 485: popped_move = base_board.pop()
Undo(b) == pop(b)

\* lines 449 and 484: the value a call returns is stored by its caller under
\* the fingerprint of the position the call was made on
ReturnTo(e, v) ==
    LET n == Len(e.frames)
        caller == e.frames[n - 1]
    IN [e EXCEPT !.frames = Append(SubSeq(e.frames, 1, n - 2),
                                   [caller EXCEPT !.val = v, !.pc = "pop"]),
                 !.stored_values = Store(e.stored_values, caller.hash_, v)]

\* a variant of AfterSearch: nothing is appended
AppendsNothing(e, b) == [e EXCEPT !.frames = <<>>]

\* MiniMax.evaluate, lines 513-515, once the search has returned
AfterSearch(e, b) ==
    [e EXCEPT !.frames = <<>>,
              !.material_difference = Append(@, StandardEvaluation(b))]

\* MiniMax.evaluate, lines 500-507: the call of minimax at the root
StartSearch(e) ==
    [e EXCEPT !.frames = <<Frame(Truthy(e.color), e.depth, e.alpha, e.beta)>>]

Update(e) ==
    /\ engine' = IF active = 2 THEN engine ELSE e
    /\ twin' = IF active = 2 THEN e ELSE twin

\* minimax returns v with the engine as e and the position as b: to the
\* calling frame, or from the root to evaluate and move, which returns
\* best_move; the caller of a pair then calls the twin's move
Finish(e, v, b) ==
    /\ board' = b
    /\ IF Len(e.frames) > 1
       THEN /\ Update(ReturnTo(e, v))
            /\ UNCHANGED <<active, result, twin_result>>
       ELSE LET res == [op |-> "move", raised |-> "", move |-> e.best_move,
                        arg |-> [type |-> "none", val |-> 0]]
            IN IF active = 1
               THEN /\ engine' = AfterSearch(e, b)
                    /\ result' = res
                    /\ twin' = IF paired THEN StartSearch(twin) ELSE twin
                    /\ active' = IF paired THEN 2 ELSE 0
                    /\ UNCHANGED twin_result
               ELSE /\ twin' = AfterSearch(e, b)
                    /\ twin_result' = res
                    /\ active' = 0
                    /\ UNCHANGED <<engine, result>>

\* line 421-422: return self.evaluation_function.evaluate(base_board)
MinimaxLeaf ==
    /\ active # 0
    /\ Top(Cur).pc = "enter"
    /\ IsLeaf(Top(Cur).depth, board)
    /\ Finish(Cur, StandardEvaluation(board), board)
    /\ UNCHANGED <<other, playground, lib, paired, calls, board_at_call, assigned_at>>

\* lines 426-434 and 467-473: the running best and the moves to visit
MinimaxExpand ==
    /\ active # 0
    /\ Top(Cur).pc = "enter"
    /\ ~IsLeaf(Top(Cur).depth, board)
    /\ LET fr == Top(Cur)
           ordered == OrderedMoves(Cur, board)
           best_val == IF fr.maximizing THEN -Inf ELSE Inf
       IN IF ordered.moves = <<>>
          THEN Finish(Cur, best_val, board)
          ELSE /\ \E moves \in Shuffles(ordered) :
                    Update(SetTop(Cur, [fr EXCEPT !.pc = "loop",
                                                  !.best_val = best_val,
                                                  !.legal_moves = moves]))
               /\ UNCHANGED <<board, active, result, twin_result>>
    /\ UNCHANGED <<other, playground, lib, paired, calls, board_at_call, assigned_at>>

\* lines 436-442 and 475-479: apply the next move; its position is in the
\* transposition table
MinimaxVisitHit ==
    /\ active # 0
    /\ Top(Cur).pc = "loop"
    /\ LET fr == Top(Cur)
           move == Head(fr.legal_moves)
           pushed == push(board, move)
           hash_ == hash_current_board(Cur, pushed)
       IN /\ Contains(Cur, hash_)
          /\ board' = pushed
          /\ Update(SetTop(Cur, [fr EXCEPT !.pc = "pop",
                                           !.move = move,
                                           !.hash_ = hash_,
                                           !.val = Cur.stored_values[hash_],
                                           !.hit = TRUE,
                                           !.legal_moves = Remaining(@)]))
    /\ UNCHANGED <<other, playground, lib, paired, active, result, twin_result, calls, board_at_call,
                   assigned_at>>

\* lines 436-447 and 475-483: apply the next move; its position is not in
\* the table, and minimax is called on it
MinimaxVisitMiss ==
    /\ active # 0
    /\ Top(Cur).pc = "loop"
    /\ LET fr == Top(Cur)
           move == Head(fr.legal_moves)
           pushed == push(board, move)
           hash_ == hash_current_board(Cur, pushed)
           waiting == SetTop(Cur, [fr EXCEPT !.pc = "call",
                                             !.move = move,
                                             !.hash_ = hash_,
                                             !.hit = FALSE,
                                             !.legal_moves = Remaining(@)])
       IN /\ ~Contains(Cur, hash_)
          /\ board' = pushed
          /\ Update([waiting EXCEPT !.frames =
                       Append(@, Frame(~fr.maximizing, ChildDepth(fr.depth),
                                       fr.alpha, fr.beta))])
    /\ UNCHANGED <<other, playground, lib, paired, active, result, twin_result, calls, board_at_call,
                   assigned_at>>

\* lines 450-464 and 485-496: undo the move, update the running best, the
\* best move and the bound; leave the loop on a cutoff or after the last move
MinimaxPop ==
    /\ active # 0
    /\ Top(Cur).pc = "pop"
    /\ LET fr == Top(Cur)
           popped == popped_move(board)
           undone == Undo(board)
           keeps == Improves(fr) /\ KeepsBestMove(Cur, fr)
           alpha == NewAlpha(Cur, fr)
           beta == NewBeta(Cur, fr)
           best_val == IF Improves(fr) THEN fr.val ELSE fr.best_val
           e == [SetTop(Cur, [fr EXCEPT !.pc = "loop",
                                        !.best_val = best_val,
                                        !.alpha = alpha,
                                        !.beta = beta])
                   EXCEPT !.best_move = IF keeps THEN popped ELSE @]
       IN /\ assigned_at' = IF keeps /\ active = 1
                            THEN assigned_at \cup
                                   {[ply |-> Len(Cur.frames),
                                     maximizing |-> fr.maximizing,
                                     depth |-> fr.depth,
                                     color |-> Cur.color,
                                     configured |-> Cur.depth,
                                     move |-> popped]}
                            ELSE assigned_at
          /\ IF Cutoff(Cur, alpha, beta) \/ fr.legal_moves = <<>>
             THEN Finish(e, best_val, undone)
             ELSE /\ Update(e)
                  /\ board' = undone
                  /\ UNCHANGED <<active, result, twin_result>>
    /\ UNCHANGED <<other, playground, lib, paired, calls, board_at_call>>

SearchStep ==
    \/ MinimaxLeaf
    \/ MinimaxExpand
    \/ MinimaxVisitHit
    \/ MinimaxVisitMiss
    \/ MinimaxPop


\* ------------------------------------------------------ the engine's caller
Outcome(op, raised, move, arg) ==
    [op |-> op, raised |-> raised, move |-> move, arg |-> arg]

NoArg == [type |-> "none", val |-> 0]

\* values a caller can assign to depth: integers, True, False, "one", 2.0
DepthVals ==
    {[type |-> "int", val |-> n] : n \in -1 .. MaxDepth}
      \cup {[type |-> "bool", val |-> 1], [type |-> "bool", val |-> 0],
            [type |-> "str", val |-> 0],
            [type |-> "float", val |-> 2]}

\* a variant of IsInstanceInt: any number passes for an integer
IsInstanceNumber(v) == v.type \in {"int", "bool", "float"}

\* isinstance(depth_val, int): bool is a subclass of int
IsInstanceInt(v) == v.type \in {"int", "bool"}

\* the changes a caller makes to both engines of a pair alike
Both(Change(_)) ==
    /\ engine' = Change(engine)
    /\ twin' = IF paired THEN Change(twin) ELSE twin

\* the depth setter, lines 385-400; the caller sets the depth before the
\* engine's first move() call
SetDepth(v) ==
    /\ active = 0
    /\ calls = 0
    /\ IF ~IsInstanceInt(v)
       THEN /\ result' = Outcome("depth", "TypeError", NullMove, v)
            /\ UNCHANGED <<engine, twin>>
       ELSE IF ~(v.val >= 1)
       THEN /\ result' = Outcome("depth", "ValueError", NullMove, v)
            /\ UNCHANGED <<engine, twin>>
       ELSE /\ result' = Outcome("depth", "", NullMove, v)
            /\ Both(LAMBDA e : [e EXCEPT !.depth = v.val])
    /\ UNCHANGED <<other, playground, lib, board, paired, active, twin_result, calls, board_at_call,
                   assigned_at>>

\* engine.color = c, as tests/test_engines.py:201 does, between calls
SetColor(c) ==
    /\ active = 0
    /\ calls < MaxCalls
    /\ result' = Outcome("color", "", NullMove, NoArg)
    /\ Both(LAMBDA e : [e EXCEPT !.color = c])
    /\ UNCHANGED <<other, playground, lib, board, paired, active, twin_result, calls, board_at_call,
                   assigned_at>>

\* engine.alpha_beta_pruning = x, as tests/test_engines.py:257 does
SetPruning(x) ==
    /\ active = 0
    /\ calls = 0
    /\ ~paired
    /\ result' = Outcome("pruning", "", NullMove, NoArg)
    /\ engine' = [engine EXCEPT !.alpha_beta_pruning = x]
    /\ UNCHANGED <<other, playground, lib, board, twin, paired, active, twin_result, calls,
                   board_at_call, assigned_at>>

\* the caller plays the move it was given, as ChessPlayground.play_game does
\* with push_uci(str(white_move)); push_uci raises on an illegal move
PlayMove ==
    /\ active = 0
    /\ calls < MaxCalls
    /\ result.op = "move" /\ result.raised = ""
    /\ result.move \in Range(legal_moves(board))
    /\ board' = push(board, result.move)
    /\ result' = Outcome("played", "", NullMove, NoArg)
    /\ UNCHANGED <<other, playground, lib, engine, twin, paired, active, twin_result, calls,
                   board_at_call, assigned_at>>

\* the other side answers with a legal move of its choice
Reply(m) ==
    /\ active = 0
    /\ calls < MaxCalls
    /\ result.op = "played"
    /\ board' = push(board, m)
    /\ result' = Outcome("reply", "", NullMove, NoArg)
    /\ UNCHANGED <<other, playground, lib, engine, twin, paired, active, twin_result, calls,
                   board_at_call, assigned_at>>

\* MiniMax.move(board), lines 517-520, with evaluate's check of color,
\* lines 500 and 508-511
MiniMaxMove ==
    /\ active = 0
    /\ calls < MaxCalls
    /\ calls' = calls + 1
    /\ board_at_call' = board
    /\ IF IsBool(engine.color)
       THEN /\ engine' = StartSearch(engine)
            /\ active' = 1
            /\ result' = Outcome("call", "", NullMove, NoArg)
            /\ UNCHANGED <<twin, twin_result>>
       ELSE /\ result' = Outcome("move", "ValueError", NullMove, NoArg)
            /\ twin_result' = IF paired THEN result' ELSE twin_result
            /\ UNCHANGED <<engine, twin, active>>
    /\ assigned_at' = {}
    /\ UNCHANGED <<other, playground, lib, board, paired>>

\* ------------------------------------------------------------ start boards
\* "8/8/8/8/8/1p6/kP6/1R6 w - - 0 1" on the small board: two quiet rook
\* moves, one of which leaves the rook to the king
RookBoard ==
    Board({<<1, 0, "R">>, <<0, 1, "k">>, <<1, 1, "P">>, <<1, 2, "p">>}, WHITE, -1)

\* the rook can take a pawn the king defends, or keep away
CaptureBoard ==
    Board({<<0, 0, "R">>, <<0, 2, "p">>, <<1, 2, "k">>}, WHITE, -1)

\* the rook can take a rook; the pawn can take a pawn and promote
PromotionBoard ==
    Board({<<2, 0, "R">>, <<2, 1, "r">>, <<1, 1, "P">>, <<0, 2, "p">>,
           <<1, 2, "k">>}, WHITE, -1)

StartBoards == {RookBoard, CaptureBoard, PromotionBoard}

\* ---------------------------------------------------------- the playground
\* FEN_MAPS[name] on the small board: a FEN string, read as the position it
\* describes and its fullmove number
FEN_MAPS(name) ==
    [type |-> "str", rows |-> 8, position |-> TRUE, fullmove_number |-> 1,
     board |-> CASE name = "standard" ->
                      Board({<<0, 0, "R">>, <<2, 2, "r">>}, WHITE, -1)
                 [] name = "easy_white_win" ->
                      Board({<<0, 0, "R">>, <<0, 2, "p">>}, WHITE, -1)]

\* ChessPlayground.__init__(white_engine, black_engine), the engines given
\* by their class: BaseEngine.__init__ leaves material_difference empty.
\* node is the number of the game whose tree holds the move added last (0
\* for None), and game holds the moves added to the tree of the current game; pc is the place play_game
\* has reached, left the number of games play_multiple_games still has to
\* play; asked and resigned are history
ChessPlayground(white_engine, black_engine) ==
    [white_engine |-> [name |-> white_engine, material_difference |-> <<>>],
     black_engine |-> [name |-> black_engine, material_difference |-> <<>>],
     fen |-> FEN_MAPS("standard"),
     fullmove_number |-> 1,
     game |-> <<>>,
     node |-> 0,
     game_pgns |-> <<>>,
     all_results |-> <<>>,
     all_move_counts |-> <<>>,
     all_material_differences |-> <<>>,
     pc |-> "idle",
     left |-> 0,
     games |-> 0,
     raised |-> "",
     asked |-> {},
     resigned |-> FALSE]

DepthArgs == 0 .. MaxDepth

InitCommon ==
    /\ board \in StartBoards
    /\ \E c \in ColorArgs, d \in DepthArgs, t \in HashTables :
         /\ engine = NewMiniMax(c, d, t)
         /\ twin = IF paired
                   THEN [NewMiniMax(c, d, t) EXCEPT !.alpha_beta_pruning = FALSE]
                   ELSE NewMiniMax(c, d, t)
    /\ active = 0
    /\ result = NoResult
    /\ twin_result = NoResult
    /\ calls = 0
    /\ board_at_call = board
    /\ assigned_at = {}
    /\ other = board
    /\ lib = NoCalls
    /\ playground = ChessPlayground("Random", "Random")

Init == paired = FALSE /\ InitCommon

\* a pair: two engines alike but for alpha_beta_pruning, given the same calls
InitPair == paired = TRUE /\ InitCommon

Next ==
    \/ MiniMaxMove
    \/ PlayMove
    \/ \E m \in Range(legal_moves(board)) : Reply(m)
    \/ \E v \in DepthVals : SetDepth(v)
    \/ \E c \in ColorArgs : SetColor(c)
    \/ \E x \in BOOLEAN : SetPruning(x)
    \/ SearchStep

Spec == Init /\ [][Next]_vars

NextPair ==
    \/ MiniMaxMove
    \/ PlayMove
    \/ \E m \in Range(legal_moves(board)) : Reply(m)
    \/ SearchStep

SpecPair == InitPair /\ [][NextPair]_vars


\* ------------------------------------------------- BaseEngine's resets
\* reset_move_variables(), engines.py:95-98: self.legal_moves = {}, a field
\* MiniMax never reads or writes
reset_move_variables(e) == e

\* a variant of reset_game_variables: the transposition table is emptied
\* with the rest
ResetGameAndTable(e) ==
    [e EXCEPT !.material_difference = <<>>, !.stored_values = <<>>]

\* reset_game_variables(), engines.py:100-105
reset_game_variables(e) == [e EXCEPT !.material_difference = <<>>]

ResetMoveVariables ==
    /\ active = 0
    /\ engine' = reset_move_variables(engine)
    /\ result' = Outcome("reset_move_variables", "", NullMove, NoArg)
    /\ UNCHANGED <<board, twin, paired, active, twin_result, calls,
                   board_at_call, assigned_at, other, playground, lib>>

\* called between games, as ChessPlayground.play_game does before a game
ResetGameVariables ==
    /\ active = 0
    /\ engine' = reset_game_variables(engine)
    /\ result' = Outcome("reset_game_variables", "", NullMove, NoArg)
    /\ UNCHANGED <<board, twin, paired, active, twin_result, calls,
                   board_at_call, assigned_at, other, playground, lib>>

\* an engine over moves and games: move() (evaluate() and the return of
\* best_move), the moves played on the board, and the resets
NextGame ==
    \/ MiniMaxMove
    \/ PlayMove
    \/ \E m \in Range(legal_moves(board)) : Reply(m)
    \/ SearchStep
    \/ ResetMoveVariables
    \/ ResetGameVariables

SpecGame == Init /\ [][NextGame]_vars

\* ------------------------------------------- the library, called directly
\* the positions handed to MVV_LVA, zobrist_hash_function, the evaluation
\* and the transposition table by their callers and tests
\* two pawns that can both take en passant on b3, and no other capture
EnPassantBoard ==
    Board({<<0, 1, "P">>, <<2, 1, "P">>, <<1, 1, "p">>}, WHITE, square(1, 2))

\* a pawn that can take en passant on b3 and a rook that can take a knight
EnPassantCaptureBoard ==
    Board({<<0, 1, "P">>, <<1, 1, "p">>, <<2, 0, "R">>, <<2, 1, "n">>},
          WHITE, square(1, 2))

\* a pawn and a knight that can each take a queen or a knight
ExchangeBoard ==
    Board({<<1, 0, "N">>, <<1, 1, "P">>, <<0, 2, "q">>, <<2, 2, "n">>},
          WHITE, -1)

\* the same material on both sides
MirrorBoard ==
    Board({<<0, 0, "R">>, <<0, 1, "P">>, <<2, 2, "r">>, <<2, 1, "p">>},
          WHITE, -1)

LibBoards ==
    StartBoards \cup
      {EnPassantBoard, EnPassantCaptureBoard, ExchangeBoard, MirrorBoard}

Occupied(b) == {s \in Squares : b.pieces[s] # NoPiece}

\* the positions that differ from b in one piece's square
MovedPiece(b) ==
    {[b EXCEPT !.pieces = [@ EXCEPT ![st[1]] = NoPiece,
                                    ![st[2]] = b.pieces[st[1]]]] :
        st \in Occupied(b) \X (Squares \ Occupied(b))}

\* the positions that differ from b in one piece's identity
ChangedPiece(b) ==
    {[b EXCEPT !.pieces[x[1]] = x[2]] :
        x \in {y \in Occupied(b) \X Symbols : b.pieces[y[1]] # y[2]}}

\* the positions with one piece of b removed
RemovedPiece(b) == {[b EXCEPT !.pieces[s] = NoPiece] : s \in Occupied(b)}

\* the positions with one piece of each side removed
TradedPieces(b) ==
    {[b EXCEPT !.pieces = [@ EXCEPT ![wb[1]] = NoPiece, ![wb[2]] = NoPiece]] :
        wb \in occupied_co(b.pieces, WHITE) \X occupied_co(b.pieces, BLACK)}

\* the positions with the placement of b: the other side to move, another
\* en-passant square, or a null move played (a longer move stack)
SamePlacement(b) ==
    {b, [b EXCEPT !.turn = ~@], [b EXCEPT !.ep_square = -1],
     [b EXCEPT !.turn = ~@, !.ep_square = -1],
     push(b, NullMove)}

\* the position a direct call is made on: board or other
Input(w) == IF w = 1 THEN board ELSE other

\* a table random.randint(1, 2 ** 64 - 1) can draw as well: the entries of
\* the white pawn on a2 and on a3 are the same number
RepeatedTable ==
    [DrawnTable EXCEPT ![2][0][PIECE_INDEXING("P")] =
                          DrawnTable[1][0][PIECE_INDEXING("P")]]

DrawableTables == HashTables \cup {RepeatedTable}

\* ------------------------------------------------------- MVV_LVA calls
MaxPushes == 2

\* MVV_LVA(board), as the tests and the engines call it
MvvLvaCall ==
    /\ \E moves \in Shuffles(MVV_LVA(board)) :
         lib' = [lib EXCEPT !.ordered = [done |-> TRUE, val |-> moves]]
    /\ UNCHANGED <<board, engine, twin, paired, active, result, twin_result,
                   calls, board_at_call, assigned_at, other, playground>>

\* board.push(move) by the caller, between two calls of MVV_LVA
PushMove(m) ==
    /\ Len(board.stack) < MaxPushes
    /\ board' = push(board, m)
    /\ lib' = NoCalls
    /\ UNCHANGED <<engine, twin, paired, active, result, twin_result, calls,
                   board_at_call, assigned_at, other, playground>>

InitOrder ==
    /\ board \in {[b EXCEPT !.turn = t] : b \in LibBoards, t \in BOOLEAN}
    /\ other = board
    /\ engine = NewMiniMax("True", 1, DrawnTable)
    /\ twin = engine
    /\ paired = FALSE
    /\ active = 0
    /\ result = NoResult
    /\ twin_result = NoResult
    /\ calls = 0
    /\ board_at_call = board
    /\ assigned_at = {}
    /\ lib = NoCalls
    /\ playground = ChessPlayground("Random", "Random")

NextOrder ==
    \/ MvvLvaCall
    \/ \E m \in Range(legal_moves(board)) : PushMove(m)

SpecOrder == InitOrder /\ [][NextOrder]_vars

\* ------------------------------------- a search with a repeated fingerprint
\* a table the constructor can draw: the entry of a black knight on b1 is
\* the entry of a black pawn on b2, so that a position and the one after
\* the pawn's promotion to a knight have one fingerprint
CollidingTable ==
    [DrawnTable EXCEPT ![0][1][PIECE_INDEXING("n")] =
                         DrawnTable[1][1][PIECE_INDEXING("p")]]

\* the rook can take Black's last piece, which leaves Black without a move
LastPieceBoard == Board({<<0, 0, "R">>, <<0, 2, "p">>}, WHITE, -1)

\* an engine of either color and depth, with a table of different entries
\* or the colliding one
InitSearch ==
    /\ paired = FALSE
    /\ board \in {CaptureBoard, PromotionBoard, EnPassantCaptureBoard,
                  LastPieceBoard}
    /\ \E c \in {"True", "False"}, d \in 1 .. MaxDepth,
          t \in {DrawnTable, CollidingTable} :
         /\ engine = NewMiniMax(c, d, t)
         /\ twin = NewMiniMax(c, d, t)
    /\ active = 0
    /\ result = NoResult
    /\ twin_result = NoResult
    /\ calls = 0
    /\ board_at_call = board
    /\ assigned_at = {}
    /\ other = board
    /\ lib = NoCalls
    /\ playground = ChessPlayground("Random", "Random")

\* move() called on the position, the first time and again
NextSearch == MiniMaxMove \/ SearchStep

SpecSearch == InitSearch /\ [][NextSearch]_vars

\* ------------------------------------------ games played on the playground
\* engine.move(board) for the engines Random (engines.py:131-140) and
\* ScholarsMate (engines.py:316-339): the engine after the call and the move
\* returned, one pair for each choice random.choice can make. Board.starting_fen
\* is the same class attribute for every chess.Board, so the first test of
\* ScholarsMate.move never holds
EngineMove(e, b, fullmove_number) ==
    LET evaluated ==
            [e EXCEPT !.material_difference =
                        Append(@, StandardEvaluation(b))]
        STARTING_FEN == "standard"
        starting_fen == STARTING_FEN
        \* "e2e4", "f1c4", "d1h5", "h5f7" as files and ranks from 0
        moves == << <<4, 1, 4, 3>>, <<5, 0, 2, 3>>, <<3, 0, 7, 4>>,
                    <<7, 4, 5, 6>> >>
        uci(m) == <<square_file(m.from_square), square_rank(m.from_square),
                    square_file(m.to_square), square_rank(m.to_square)>>
    IN IF e.name = "Random"
       THEN IF legal_moves(b) = <<>>
            THEN {[engine |-> evaluated, move |-> NullMove]}
            ELSE {[engine |-> evaluated, move |-> m] :
                    m \in Range(legal_moves(b))}
       ELSE IF fullmove_number = 1 /\ starting_fen # STARTING_FEN
            THEN {[engine |-> e, move |-> NullMove]}
       ELSE IF fullmove_number \notin 1 .. 4
            THEN {[engine |-> evaluated, move |-> NullMove]}
       ELSE LET move == moves[fullmove_number]
                played == {m \in Range(legal_moves(b)) :
                             uci(m) = move /\ m.promotion = ""}
            IN IF played = {}
               THEN {[engine |-> evaluated, move |-> NullMove]}
               ELSE {[engine |-> evaluated, move |-> m] : m \in played}

\* EnginePlay.append_move_to_tree(move), simulations.py:86-97, called after
\* the move is pushed: the first move of a game starts the tree of the game,
\* a later one is added under the node of the move added last, which can be
\* missing or belong to an earlier game
append_move_to_tree(p, move) ==
    IF p.fullmove_number = 1
    THEN [p EXCEPT !.game = Append(@, move), !.node = p.games]
    ELSE IF p.node = 0
    THEN [p EXCEPT !.raised = "AttributeError"]
    ELSE IF p.node = p.games
    THEN [p EXCEPT !.game = Append(@, move)]
    ELSE [p EXCEPT !.game_pgns =
            [i \in DOMAIN @ |->
               IF @[i].id = p.node
               THEN [@[i] EXCEPT !.moves = Append(@, move)]
               ELSE @[i]]]

\* evaluate_ending_board(board), analysis.py:15-47
evaluate_ending_board(b) ==
    IF ~is_game_over(b) THEN "Game over by resignation"
    ELSE IF legal_moves(b) = <<>> /\ InCheck(b.pieces, b.turn)
    THEN IF b.turn = BLACK THEN "White win by mate" ELSE "Black win by mate"
    ELSE IF legal_moves(b) = <<>> THEN "Stalemate"
    ELSE "Insufficient material"

\* play_game, simulations.py:309-318: a new game tree set up from _fen, the
\* board of _fen and the engines' game variables reset; game.setup raises
\* ValueError for a string that is no position, which ends the call (and
\* play_multiple_games with it)
StartGame(p) ==
    IF ~p.fen.position
    THEN /\ playground' = [p EXCEPT !.game = <<>>, !.games = @ + 1,
                                    !.raised = "ValueError",
                                    !.pc = "idle", !.left = 0]
         /\ UNCHANGED board
    ELSE /\ playground' =
              [p EXCEPT !.game = <<>>, !.games = @ + 1, !.raised = "",
                        !.fullmove_number = p.fen.fullmove_number,
                        !.white_engine = reset_game_variables(@),
                        !.black_engine = reset_game_variables(@),
                        !.asked = {}, !.resigned = FALSE, !.pc = "white"]
         /\ board' = p.fen.board

\* the fen setter, simulations.py:65-80, with is_valid_fen, utils.py:48-67:
\* _fen is assigned before chess.Board(fen=fen_str) can fail, and that
\* ValueError is caught
SetFen(f) ==
    /\ playground.pc = "idle"
    /\ IF f.type # "str"
       THEN /\ playground' = [playground EXCEPT !.raised = "TypeError"]
            /\ UNCHANGED board
       ELSE IF f.rows # 8
       THEN /\ playground' = [playground EXCEPT !.raised = "ValueError"]
            /\ UNCHANGED board
       ELSE IF ~f.position
       THEN /\ playground' = [playground EXCEPT !.raised = "", !.fen = f]
            /\ UNCHANGED board
       ELSE /\ playground' =
                 [playground EXCEPT !.raised = "", !.fen = f,
                                    !.fullmove_number = f.fullmove_number]
            /\ board' = f.board
    /\ UNCHANGED <<engine, twin, paired, active, result, twin_result, calls,
                   board_at_call, assigned_at, other, lib>>

\* playground.play_game()
PlayGame ==
    /\ playground.pc = "idle"
    /\ playground.games < MaxGames
    /\ StartGame([playground EXCEPT !.left = 0])
    /\ UNCHANGED <<engine, twin, paired, active, result, twin_result, calls,
                   board_at_call, assigned_at, other, lib>>

\* playground.play_multiple_games(N), simulations.py:352-364
PlayMultipleGames(N) ==
    /\ playground.pc = "idle"
    /\ playground.games + N <= MaxGames
    /\ LET p == [playground EXCEPT !.all_results = <<>>]
       IN IF N = 0
          THEN /\ playground' = [p EXCEPT !.raised = ""]
               /\ UNCHANGED board
          ELSE StartGame([p EXCEPT !.left = N - 1])
    /\ UNCHANGED <<engine, twin, paired, active, result, twin_result, calls,
                   board_at_call, assigned_at, other, lib>>

\* one turn of the loop of play_game, simulations.py:320-335: the white
\* engine is asked at the top of the loop (lines 322-327), the black engine
\* after a move of the white engine that does not end the game (lines
\* 330-335); the null move breaks the loop. board.push adds one to
\* fullmove_number after a move of Black
EngineTurn(side) ==
    /\ playground.pc = side
    /\ ~is_game_over(board)
    /\ Len(playground.white_engine.material_difference)
         + Len(playground.black_engine.material_difference) < MaxPlies
    /\ LET asking == IF side = "white" THEN playground.white_engine
                     ELSE playground.black_engine
       IN \E r \in EngineMove(asking, board, playground.fullmove_number) :
          LET p == [playground EXCEPT
                      !.white_engine = IF side = "white" THEN r.engine ELSE @,
                      !.black_engine = IF side = "black" THEN r.engine ELSE @,
                      !.asked = @ \cup {[engine |-> side, turn |-> board.turn,
                                         game_over |-> is_game_over(board),
                                         resigned |-> playground.resigned]}]
              pushed == [p EXCEPT !.fullmove_number =
                                    IF board.turn = BLACK THEN @ + 1 ELSE @]
              added == append_move_to_tree(pushed, r.move)
          IN IF r.move = NullMove
             THEN /\ playground' = [p EXCEPT !.pc = "end", !.resigned = TRUE]
                  /\ UNCHANGED board
             ELSE /\ board' = push(board, r.move)
                  /\ playground' =
                       IF added.raised # ""
                       THEN [added EXCEPT !.pc = "idle", !.left = 0]
                       ELSE [added EXCEPT !.pc =
                               IF side = "white" /\ ~is_game_over(board')
                               THEN "black" ELSE "white"]
    /\ UNCHANGED <<engine, twin, paired, active, result, twin_result, calls,
                   board_at_call, assigned_at, other, lib>>

\* the end of play_game, simulations.py:337-350, reached when the board's
\* game is over at the top of the loop or an engine returned the null move;
\* play_multiple_games then starts the next game
FinishGame ==
    /\ \/ playground.pc = "end"
       \/ playground.pc = "white" /\ is_game_over(board)
    /\ LET white == playground.white_engine.material_difference
           black == playground.black_engine.material_difference
           zip == [i \in 1 .. Min(Len(white), Len(black)) |->
                     <<white[i], black[i]>>]
           p == [playground EXCEPT
                   !.all_move_counts =
                       Append(@, playground.fullmove_number - 1),
                   !.all_material_differences = Append(@, zip),
                   !.game_pgns = Append(@, [id |-> playground.games,
                                            moves |-> playground.game]),
                   !.all_results = Append(@, evaluate_ending_board(board))]
       IN IF playground.left > 0
          THEN StartGame([p EXCEPT !.left = @ - 1])
          ELSE /\ playground' = [p EXCEPT !.pc = "idle"]
               /\ UNCHANGED board
    /\ UNCHANGED <<engine, twin, paired, active, result, twin_result, calls,
                   board_at_call, assigned_at, other, lib>>

\* a playground of two engines; the FEN strings its user sets are those of
\* FEN_MAPS with either side to move and a later fullmove number, a string
\* of eight rows that is no position, a string of fewer rows, and a number
InitPlay ==
    /\ \E w \in {"Random", "Scholar's Mate"},
          b \in {"Random", "Scholar's Mate"} :
         playground = ChessPlayground(w, b)
    /\ board = playground.fen.board
    /\ engine = NewMiniMax("True", 1, DrawnTable)
    /\ twin = engine
    /\ paired = FALSE
    /\ active = 0
    /\ result = NoResult
    /\ twin_result = NoResult
    /\ calls = 0
    /\ board_at_call = board
    /\ assigned_at = {}
    /\ other = board
    /\ lib = NoCalls

NextPlay ==
    LET standard == FEN_MAPS("standard")
        easy == FEN_MAPS("easy_white_win")
        FenArgs ==
            {standard, easy,
             [easy EXCEPT !.board.turn = BLACK],
             [easy EXCEPT !.fullmove_number = 2],
             [standard EXCEPT !.position = FALSE],
             [standard EXCEPT !.rows = 7],
             [standard EXCEPT !.type = "int"]}
    IN \/ \E f \in FenArgs : SetFen(f)
       \/ PlayGame
       \/ \E N \in 0 .. MaxGames : PlayMultipleGames(N)
       \/ \E side \in {"white", "black"} : EngineTurn(side)
       \/ FinishGame

SpecPlay == InitPlay /\ [][NextPlay]_vars

\* ------------------------------------------ StandardEvaluation calls
\* StandardEvaluation().evaluate(board), as the tests call it
EvaluateCall(w) ==
    /\ lib' = [lib EXCEPT !.eval[w] =
                 [done |-> TRUE, val |-> StandardEvaluation(Input(w))]]
    /\ UNCHANGED <<board, engine, twin, paired, active, result, twin_result,
                   calls, board_at_call, assigned_at, other, playground>>

\* PieceValueEvaluation().evaluate(board)
PieceValueCall(w) ==
    /\ lib' = [lib EXCEPT !.placed[w] =
                 [done |-> TRUE, val |-> PieceValueEvaluation(Input(w))]]
    /\ UNCHANGED <<board, engine, twin, paired, active, result, twin_result,
                   calls, board_at_call, assigned_at, other, playground>>

\* get_piece_value_from_table for the piece on a square of board
TableValueCall(sq) ==
    /\ board.pieces[sq] # NoPiece
    /\ lib' = [lib EXCEPT !.bonus =
                 [done |-> TRUE, sq |-> sq,
                  val |-> get_piece_value_from_table(
                            Upper(board.pieces[sq]), ColorOf(board.pieces[sq]),
                            sq)]]
    /\ UNCHANGED <<board, engine, twin, paired, active, result, twin_result,
                   calls, board_at_call, assigned_at, other, playground>>

\* the position with the colors of all pieces swapped and the board turned
\* by 180 degrees
Reflected(b) ==
    [b EXCEPT !.pieces =
        [s \in Squares |->
            LET sym == b.pieces[NumRanks * NumFiles - 1 - s]
            IN IF sym = NoPiece THEN NoPiece
               ELSE Symbol(Upper(sym), ~ColorOf(sym))],
       !.turn = ~@, !.ep_square = -1]

InitEval ==
    /\ board \in {[b EXCEPT !.turn = t] : b \in LibBoards, t \in BOOLEAN}
    /\ other \in {board, Reflected(board)} \cup RemovedPiece(board)
                 \cup TradedPieces(board)
    /\ engine = NewMiniMax("True", 1, DrawnTable)
    /\ twin = engine
    /\ paired = FALSE
    /\ active = 0
    /\ result = NoResult
    /\ twin_result = NoResult
    /\ calls = 0
    /\ board_at_call = board
    /\ assigned_at = {}
    /\ lib = NoCalls
    /\ playground = ChessPlayground("Random", "Random")

NextEval ==
    \/ \E w \in 1 .. 2 : EvaluateCall(w)
    \/ \E w \in 1 .. 2 : PieceValueCall(w)
    \/ \E sq \in Squares : TableValueCall(sq)

SpecEval == InitEval /\ [][NextEval]_vars

\* ------------------------------------------ zobrist_hash_function calls
\* a variant of ZobristStart: _hash starts from the fingerprint last
\* returned for board
ZobristStartsFromLast(h) == Xor(lib.hash[1].val, h)

\* transpositions.py:22: _hash = 0 at the start of every call
ZobristStart(h) == h

\* zobrist_hash_function(position, hash_table), as the tests call it
ZobristCall(w) ==
    /\ lib' = [lib EXCEPT !.hash[w] =
                 [done |-> TRUE,
                  val |-> ZobristStart(
                            zobrist_hash_function(Input(w), engine.hash_table))]]
    /\ UNCHANGED <<board, engine, twin, paired, active, result, twin_result,
                   calls, board_at_call, assigned_at, other, playground>>

InitHash ==
    /\ board \in LibBoards
    /\ other \in SamePlacement(board) \cup MovedPiece(board)
                 \cup ChangedPiece(board)
    /\ \E t \in DrawableTables :
         /\ engine = NewMiniMax("True", 1, t)
         /\ twin = NewMiniMax("True", 1, t)
    /\ paired = FALSE
    /\ active = 0
    /\ result = NoResult
    /\ twin_result = NoResult
    /\ calls = 0
    /\ board_at_call = board
    /\ assigned_at = {}
    /\ lib = NoCalls
    /\ playground = ChessPlayground("Random", "Random")

NextHash == \E w \in 1 .. 2 : ZobristCall(w)

SpecHash == InitHash /\ [][NextHash]_vars

\* ------------------------------------------------ TranspositionTable calls
MaxStores == 2

\* the values a caller stores: scores of either sign
Scores == {-1, 1}

\* TranspositionTable.store_current_board(board): the evaluation of the
\* position, stored under its fingerprint
store_current_board(e, b) ==
    [e EXCEPT !.stored_values =
        Store(@, hash_current_board(e, b), StandardEvaluation(b))]

\* TranspositionTable.__len__()
TableLen(e) == Cardinality(DOMAIN e.stored_values)

Stored(w, hash_, val) ==
    [lib EXCEPT !.stores = Append(@, [on |-> w, hash_ |-> hash_, val |-> val]),
                !.lookup = NoCalls.lookup]

\* table.store_current_board(position)
StoreCurrentBoard(w) ==
    /\ Len(lib.stores) < MaxStores
    /\ engine' = store_current_board(engine, Input(w))
    /\ lib' = Stored(w, hash_current_board(engine, Input(w)),
                     StandardEvaluation(Input(w)))
    /\ UNCHANGED <<board, twin, paired, active, result, twin_result, calls,
                   board_at_call, assigned_at, other, playground>>

\* table.stored_values[table.hash_current_board(position)] = val, as
\* minimax stores the value of a branch
StoreValue(w, val) ==
    /\ Len(lib.stores) < MaxStores
    /\ LET hash_ == hash_current_board(engine, Input(w))
       IN /\ engine' = [engine EXCEPT !.stored_values = Store(@, hash_, val)]
          /\ lib' = Stored(w, hash_, val)
    /\ UNCHANGED <<board, twin, paired, active, result, twin_result, calls,
                   board_at_call, assigned_at, other, playground>>

\* hash_ in table, table.stored_values[hash_] and len(table) for a position
LookUp(w) ==
    /\ LET hash_ == hash_current_board(engine, Input(w))
           hit == Contains(engine, hash_)
       IN lib' = [lib EXCEPT !.lookup =
                    [done |-> TRUE, on |-> w, hash_ |-> hash_, hit |-> hit,
                     val |-> IF hit THEN engine.stored_values[hash_] ELSE 0,
                     len |-> TableLen(engine)]]
    /\ UNCHANGED <<board, engine, twin, paired, active, result, twin_result,
                   calls, board_at_call, assigned_at, other, playground>>

\* a table on its own: TranspositionTable(zobrist_hash_function), held here
\* by a fresh engine, and two positions of its caller
InitTable ==
    /\ board \in LibBoards
    /\ other \in {board, [board EXCEPT !.turn = ~@]} \cup MovedPiece(board)
    /\ \E t \in DrawableTables :
         /\ engine = NewMiniMax("True", 1, t)
         /\ twin = NewMiniMax("True", 1, t)
    /\ paired = FALSE
    /\ active = 0
    /\ result = NoResult
    /\ twin_result = NoResult
    /\ calls = 0
    /\ board_at_call = board
    /\ assigned_at = {}
    /\ lib = NoCalls
    /\ playground = ChessPlayground("Random", "Random")

NextTable ==
    \/ \E w \in 1 .. 2 : StoreCurrentBoard(w)
    \/ \E w \in 1 .. 2, val \in Scores : StoreValue(w, val)
    \/ \E w \in 1 .. 2 : LookUp(w)

SpecTable == InitTable /\ [][NextTable]_vars


\* ------------------------------------------------------------ properties
\* move() on the engine has returned a move for the position board_at_call
Returned == active = 0 /\ result.op = "move" /\ result.raised = ""

SetMin(S) == CHOOSE x \in S : \A y \in S : x <= y

\* reference minimax: all legal moves at every node, static evaluation at
\* depth 0 or at terminal nodes, no cache, no pruning
RECURSIVE ReferenceMinimax(_, _, _)
ReferenceMinimax(b, maximizing, depth) ==
    IF depth = 0 \/ is_game_over(b) THEN StandardEvaluation(b)
    ELSE LET vals == {ReferenceMinimax(push(b, m), ~maximizing, depth - 1) :
                        m \in Range(legal_moves(b))}
         IN IF maximizing THEN SetMax(vals) ELSE SetMin(vals)

\* the reference value of a root move of the position handed in
RootValue(m) ==
    ReferenceMinimax(push(board_at_call, m), ~Truthy(engine.color),
                     engine.depth - 1)

RootValues == {RootValue(m) : m \in Range(legal_moves(board_at_call))}

OwnSideToMove == board_at_call.turn = Truthy(engine.color)

\* C1: when the engine's side is to move and a legal move exists, the move
\* that move() returns at depth D is a root move whose reference depth-D
\* minimax value is the maximum over the root moves for a White engine and
\* the minimum for a Black engine.
C1_ReturnsOptimalMove ==
    (Returned /\ engine.depth >= 1 /\ OwnSideToMove
       /\ legal_moves(board_at_call) # <<>>)
    => /\ result.move \in Range(legal_moves(board_at_call))
       /\ RootValue(result.move) =
            IF Truthy(engine.color) THEN SetMax(RootValues)
            ELSE SetMin(RootValues)

\* C2: an engine with alpha_beta_pruning and its twin without, alike in
\* color, depth and move order and given the same calls, return the same
\* move at every call.
C2_PruningKeepsBestMove ==
    (paired /\ active = 0 /\ result.op = "move" /\ twin_result.op = "move")
    => result.move = twin_result.move

\* the frames whose move is applied to the board: all but the top one wait
\* for a recursive call, the top one may be about to undo its move
Applied(e) == {i \in 1 .. Len(e.frames) : e.frames[i].pc \in {"call", "pop"}}

RECURSIVE PopTimes(_, _)
PopTimes(b, n) == IF n = 0 THEN b ELSE PopTimes(pop(b), n - 1)

\* C3: when move returns, the position (placement, side to move, move stack)
\* is what it was at the call; during the search the moves on the board's
\* stack above the position handed in are exactly the moves of the frames
\* still to undo one, in call order, and undoing them gives that position.
C3_PositionRestored ==
    /\ (active = 0 /\ result.op = "move") => board = board_at_call
    /\ active # 0 =>
         LET base == Len(board_at_call.stack)
             n == Len(board.stack) - base
         IN /\ n = Cardinality(Applied(Cur))
            /\ Applied(Cur) = 1 .. n
            /\ \A i \in 1 .. n : board.stack[base + i].move = Cur.frames[i].move
            /\ PopTimes(board, n) = board_at_call

\* a later call of full depth on a game in progress, with values in the
\* transposition table, has given the position back
C3_Witness ==
    /\ Returned /\ calls = MaxCalls /\ engine.depth = MaxDepth
    /\ DOMAIN engine.stored_values # {}
    /\ board = board_at_call
    /\ board.stack # <<>>

\* C4: for a position that is not terminal and a depth >= 1, after any
\* earlier calls, the move returned is a legal move of the position handed
\* in, assigned during this call, and not the null move.
C4_ReturnsLegalMove ==
    (Returned /\ engine.depth >= 1 /\ ~is_game_over(board_at_call))
    => /\ result.move \in Range(legal_moves(board_at_call))
       /\ result.move # NullMove
       /\ \E a \in assigned_at : a.move = result.move

\* the second call returns a legal move that differs from the first call's
C4_Witness ==
    /\ Returned /\ calls = MaxCalls /\ engine.depth >= 1
    /\ ~is_game_over(board_at_call)
    /\ board_at_call.stack # <<>>
    /\ result.move \in Range(legal_moves(board_at_call))
    /\ result.move # board_at_call.stack[1].move

\* C5: move() called on a position without legal moves returns the null
\* move, whatever earlier calls returned.
C5_NullMoveWithoutLegalMoves ==
    (Returned /\ legal_moves(board_at_call) = <<>>) => result.move = NullMove

Captures(b) == {m \in Range(legal_moves(b)) : is_capture(b, m)}

VictimValue(b, m) ==
    IF is_en_passant(b, m) THEN CONVENTIONAL_PIECE_VALUES("P")
    ELSE CONVENTIONAL_PIECE_VALUES(Upper(b.pieces[m.to_square]))

\* the captures of the highest-value capturable piece
TopCaptures(b) ==
    {m \in Captures(b) :
        \A n \in Captures(b) : VictimValue(b, n) <= VictimValue(b, m)}

DepthDecreases ==
    active # 0 =>
      /\ \A i \in 1 .. Len(Cur.frames) :
           /\ Cur.frames[i].depth = Cur.depth - (i - 1)
           /\ Cur.frames[i].depth >= 0
           /\ i < Len(Cur.frames) => Cur.frames[i].pc = "call"
      /\ Len(board.stack) - Len(board_at_call.stack) <= Cur.depth
      /\ Top(Cur).pc \in {"enter", "loop", "pop"}
      /\ Top(Cur).pc = "loop" => Top(Cur).legal_moves # <<>>

\* the recursion is synchronous: a search that has begun keeps taking steps
\* for as long as it has not returned (weak fairness of SearchStep, which
\* by DepthDecreases is enabled exactly while active # 0)
SearchRunsOn == []<>(active = 0) \/ []<><<SearchStep>>_vars

\* C8: minimax terminates: the remaining depth strictly decreases on each
\* recursive call, no path applies more than D moves, and every search that
\* has begun returns.
C8_Terminates ==
    /\ []DepthDecreases
    /\ SearchRunsOn => ((active # 0) ~> (active = 0))

\* a search of the full depth has reached a frame with no depth left
C8_Witness ==
    /\ active = 1 /\ engine.depth = MaxDepth
    /\ Len(engine.frames) = MaxDepth + 1
    /\ Top(engine).depth = 0
    /\ Len(board.stack) - Len(board_at_call.stack) = MaxDepth

\* C9: assigning a non-integer to depth raises TypeError, assigning an
\* integer below 1 raises ValueError, in both cases the engine is left as it
\* was; assigning an integer >= 1 makes depth that integer.  A bool is an
\* integer in Python: True counts as 1, False as 0.
C9_DepthSetter ==
    [][result'.op = "depth" =>
         LET v == result'.arg IN
         /\ v.type \in {"str", "float"} =>
              result'.raised = "TypeError" /\ engine' = engine
         /\ (v.type \in {"int", "bool"} /\ v.val < 1) =>
              result'.raised = "ValueError" /\ engine' = engine
         /\ (v.type \in {"int", "bool"} /\ v.val >= 1) =>
              result'.raised = "" /\ engine'.depth = v.val]_vars

\* a rejected assignment left the depth set before it
C9_Witness ==
    /\ result.op = "depth" /\ result.raised = "ValueError"
    /\ result.arg.val < 1
    /\ engine.depth = MaxDepth

\* C10: move() called while color is not a bool raises ValueError without
\* a search: best_move, material_difference, the transposition table and the
\* position stay as they were.
C10_InvalidColorRaises ==
    [][(calls' = calls + 1 /\ engine.color \notin {"True", "False"}) =>
         /\ result'.op = "move" /\ result'.raised = "ValueError"
         /\ active' = 0
         /\ engine' = engine
         /\ board' = board]_vars

\* the call failed on an engine that had answered an earlier call
C10_Witness ==
    /\ result.op = "move" /\ result.raised = "ValueError"
    /\ calls = MaxCalls
    /\ engine.best_move # NullMove
    /\ DOMAIN engine.stored_values # {}
    /\ engine.material_difference # <<>>

\* the fingerprints stored so far, and the value last stored under one
StoredHashes == {lib.stores[i].hash_ : i \in 1 .. Len(lib.stores)}

LastStored(hash_) ==
    lib.stores[SetMax({i \in 1 .. Len(lib.stores) :
                         lib.stores[i].hash_ = hash_})].val

\* C11: every fingerprint stored is a member of the table and maps to the
\* value last stored under it, whichever position it was stored for; the
\* table holds one value per fingerprint and its length is the number of
\* distinct fingerprints stored; a lookup of a position returns the value
\* last stored under its fingerprint.
C11_LookupReturnsLastStored ==
    /\ DOMAIN engine.stored_values = StoredHashes
    /\ \A h \in StoredHashes : engine.stored_values[h] = LastStored(h)
    /\ lib.lookup.done =>
         /\ lib.lookup.hit = (lib.lookup.hash_ \in StoredHashes)
         /\ lib.lookup.hit => lib.lookup.val = LastStored(lib.lookup.hash_)
         /\ lib.lookup.len = Cardinality(StoredHashes)

\* two values were stored for one position, the second differing from the
\* first, and the lookup of another position with the same fingerprint
\* returned the second
C11_Witness ==
    /\ Len(lib.stores) = 2
    /\ lib.stores[1].on = 1 /\ lib.stores[2].on = 1
    /\ lib.stores[1].val # lib.stores[2].val
    /\ other.pieces # board.pieces
    /\ lib.lookup.done /\ lib.lookup.on = 2 /\ lib.lookup.hit
    /\ lib.lookup.val = lib.stores[2].val
    /\ lib.lookup.len = 1

\* C12: no step of an engine (a search step of move() or evaluate(), a
\* reset_move_variables() or a reset_game_variables()) removes a fingerprint
\* from its transposition table.
C12_TableOnlyGrows ==
    [][DOMAIN engine.stored_values \subseteq DOMAIN engine'.stored_values]_vars

\* the engine was reset with fingerprints in its table, and a later call
\* has added to them
C12_Witness ==
    /\ calls = MaxCalls /\ active = 0 /\ result.op = "move"
    /\ engine.material_difference # <<>>
    /\ Len(engine.material_difference) < calls
    /\ board_at_call.stack # <<>>
    /\ Cardinality(DOMAIN engine.stored_values) > 1

BothHashed == lib.hash[1].done /\ lib.hash[2].done

OnePieceDiffers == other \in MovedPiece(board) \cup ChangedPiece(board)

\* no two entries of the table are the same number
PairwiseDistinct(hash_table) ==
    \A r1, r2 \in Ranks, f1, f2 \in Files, i1, i2 \in 0 .. 11 :
        <<r1, f1, i1>> # <<r2, f2, i2>>
          => hash_table[r1][f1][i1] # hash_table[r2][f2][i2]

\* C14 as stated: with any table the constructor can draw, two positions
\* that differ in one piece's square or identity have different
\* fingerprints.
C14_OnePieceChangesHash ==
    (BothHashed /\ OnePieceDiffers) => lib.hash[1].val # lib.hash[2].val

\* C14: with a table whose entries are pairwise different, two positions
\* that differ in one piece's square or identity have different
\* fingerprints.
C14_OnePieceChangesHashDistinctTable ==
    (BothHashed /\ OnePieceDiffers /\ PairwiseDistinct(engine.hash_table))
    => lib.hash[1].val # lib.hash[2].val

\* a pawn was moved, and a piece changed color, under a table of pairwise
\* different entries
C14_Witness ==
    /\ BothHashed /\ PairwiseDistinct(engine.hash_table)
    /\ lib.hash[1].val # lib.hash[2].val
    /\ \/ other \in MovedPiece(board)
       \/ \E s \in Squares : /\ other.pieces[s] # board.pieces[s]
                              /\ Upper(other.pieces[s]) = Upper(board.pieces[s])

\* C15: two positions with the same piece placement have the same
\* fingerprint, whatever their side to move, en-passant square and move
\* stack.
C15_HashOfPlacementOnly ==
    (BothHashed /\ other.pieces = board.pieces)
    => lib.hash[1].val = lib.hash[2].val

\* the same placement with the other side to move, hashed alike
C15_Witness ==
    /\ BothHashed /\ other.pieces = board.pieces
    /\ other.turn # board.turn
    /\ lib.hash[1].val = lib.hash[2].val

\* how many times x occurs in the sequence
Occurrences(seq, x) == Cardinality({i \in DOMAIN seq : seq[i] = x})

IsReordering(seq, of) ==
    /\ Len(seq) = Len(of)
    /\ \A x \in Range(seq) \cup Range(of) :
         Occurrences(seq, x) = Occurrences(of, x)

\* the place of a legal move in the enumeration of the legal moves
PlaceOf(b, m) == CHOOSE i \in DOMAIN legal_moves(b) : legal_moves(b)[i] = m

\* value(victim) - value(aggressor) of a capture; the victim of an
\* en-passant capture is a pawn
CaptureGain(b, m) ==
    (IF is_en_passant(b, m) THEN ConventionalPieceValues("P")
     ELSE ConventionalPieceValues(Upper(b.pieces[m.to_square])))
    - ConventionalPieceValues(Upper(b.pieces[m.from_square]))

\* C16 as stated: the output of MVV_LVA is a reordering of the legal-move
\* list, each legal move exactly once and nothing else, with or without
\* captures.
C16_ReordersLegalMoves ==
    lib.ordered.done => IsReordering(lib.ordered.val, legal_moves(board))

\* C17 as stated: when captures exist, the capturing moves of the output
\* are in non-increasing order of value(victim) - value(aggressor), and
\* captures of equal difference keep their enumeration order.
C17_CapturesSortedStably ==
    (lib.ordered.done /\ Captures(board) # {})
    => \A i, j \in DOMAIN lib.ordered.val :
         LET m == lib.ordered.val[i]
             n == lib.ordered.val[j]
         IN (i < j /\ is_capture(board, m) /\ is_capture(board, n))
            => /\ CaptureGain(board, m) >= CaptureGain(board, n)
               /\ CaptureGain(board, m) = CaptureGain(board, n)
                    => PlaceOf(board, m) < PlaceOf(board, n)

\* C18 as stated: when some legal move is a capture, every legal capture,
\* en passant included, is in the output.
C18_EveryCaptureReturned ==
    (lib.ordered.done /\ Captures(board) # {})
    => Captures(board) \subseteq Range(lib.ordered.val)

\* C19: when no legal move is a capture, the output is a permutation of
\* the legal-move list.
C19_NoCaptureGivesPermutation ==
    (lib.ordered.done /\ Captures(board) = {})
    => IsReordering(lib.ordered.val, legal_moves(board))

\* without a capture, several legal moves came back in another order than
\* the enumeration's
C19_Witness ==
    /\ lib.ordered.done /\ Captures(board) = {}
    /\ Len(legal_moves(board)) > 1
    /\ lib.ordered.val # legal_moves(board)
    /\ IsReordering(lib.ordered.val, legal_moves(board))

\* how many pieces of the type the side has
TypeCount(b, type, c) ==
    Cardinality({sq \in Squares : b.pieces[sq] = Symbol(type, c)})

\* the fixed values of the side's pieces, added up
Material(b, c) ==
    CONVENTIONAL_PIECE_VALUES("P") * TypeCount(b, "P", c)
    + CONVENTIONAL_PIECE_VALUES("N") * TypeCount(b, "N", c)
    + CONVENTIONAL_PIECE_VALUES("B") * TypeCount(b, "B", c)
    + CONVENTIONAL_PIECE_VALUES("R") * TypeCount(b, "R", c)
    + CONVENTIONAL_PIECE_VALUES("Q") * TypeCount(b, "Q", c)
    + CONVENTIONAL_PIECE_VALUES("K") * TypeCount(b, "K", c)

SameMaterial(b) ==
    \A type \in WhiteSymbols : TypeCount(b, type, WHITE) = TypeCount(b, type, BLACK)

BothEvaluated == lib.eval[1].done /\ lib.eval[2].done

\* the value of the piece on the square, counted against its owner
ValueAgainstOwner(b, sq) ==
    IF b.pieces[sq] \in WhiteSymbols
    THEN -CONVENTIONAL_PIECE_VALUES(b.pieces[sq])
    ELSE CONVENTIONAL_PIECE_VALUES(Upper(b.pieces[sq]))

\* C20: StandardEvaluation.evaluate returns White's material minus
\* Black's; a position with the same material on both sides evaluates to
\* 0; removing one piece changes the score by the piece's value against
\* its owner, and removing one piece of each side by the difference of the
\* two values.
C20_EvaluationIsSignedMaterial ==
    /\ \A w \in 1 .. 2 :
         lib.eval[w].done
         => /\ lib.eval[w].val = Material(Input(w), WHITE) - Material(Input(w), BLACK)
            /\ SameMaterial(Input(w)) => lib.eval[w].val = 0
    /\ BothEvaluated
       => /\ \A sq \in Occupied(board) :
               other.pieces = [board.pieces EXCEPT ![sq] = NoPiece]
               => lib.eval[2].val - lib.eval[1].val = ValueAgainstOwner(board, sq)
          /\ \A x \in occupied_co(board.pieces, WHITE),
                y \in occupied_co(board.pieces, BLACK) :
               other.pieces = [board.pieces EXCEPT ![x] = NoPiece, ![y] = NoPiece]
               => lib.eval[2].val - lib.eval[1].val
                    = ValueAgainstOwner(board, x) + ValueAgainstOwner(board, y)

\* a position of equal material evaluated to 0, and to another score after
\* a rook was traded for a pawn
C20_Witness ==
    /\ BothEvaluated /\ SameMaterial(board)
    /\ other \in TradedPieces(board)
    /\ lib.eval[1].val = 0
    /\ lib.eval[2].val # 0

BothPlaced == lib.placed[1].done /\ lib.placed[2].done

\* C21 as stated: a black piece on rank r, file f gets the table value of
\* the point-reflected square, and the score of the position with colors
\* swapped and the board turned by 180 degrees is the negated score.
C21_BlackUsesReflectedSquare ==
    /\ (lib.bonus.done /\ board.pieces[lib.bonus.sq] \in BlackSymbols)
       => lib.bonus.val
            = ConventionalPieceTable(Upper(board.pieces[lib.bonus.sq]))
                [NumRanks - square_rank(lib.bonus.sq)]
                [NumFiles - square_file(lib.bonus.sq)]
    /\ (BothPlaced /\ other = Reflected(board))
       => lib.placed[2].val = -lib.placed[1].val

\* the engine's search is at a frame of the given depth of the call stack
\* and state
FrameAt(e, n, pc) == Len(e.frames) >= n /\ n >= 1 /\ e.frames[n].pc = pc

\* C22: in the loop over the moves, the move is applied and the resulting
\* position fingerprinted; with the fingerprint in the table the stored
\* value is taken and no call is made; without it minimax is called with
\* the opposite role and depth - 1, and when that call returns its value is
\* stored under the fingerprint while the move is still applied.
C22_StoredValueOrRecursion ==
    [][LET n == Len(engine.frames)
           fr == engine.frames[n]
           now == engine'.frames[n]
       IN /\ (FrameAt(engine, n, "loop") /\ FrameAt(engine', n, "pop"))
             => /\ board' = push(board, now.move)
                /\ now.hash_ = zobrist_hash_function(board', engine.hash_table)
                /\ now.hash_ \in DOMAIN engine.stored_values
                /\ now.val = engine.stored_values[now.hash_]
                /\ Len(engine'.frames) = n
                /\ engine'.stored_values = engine.stored_values
          /\ (FrameAt(engine, n, "loop") /\ FrameAt(engine', n, "call"))
             => /\ board' = push(board, now.move)
                /\ now.hash_ = zobrist_hash_function(board', engine.hash_table)
                /\ now.hash_ \notin DOMAIN engine.stored_values
                /\ Len(engine'.frames) = n + 1
                /\ engine'.frames[n + 1].pc = "enter"
                /\ engine'.frames[n + 1].maximizing = ~fr.maximizing
                /\ engine'.frames[n + 1].depth = fr.depth - 1
          /\ (FrameAt(engine, n - 1, "call") /\ FrameAt(engine', n - 1, "pop")
                /\ Len(engine'.frames) = n - 1)
             => LET caller == engine'.frames[n - 1]
                IN /\ caller.hash_ \in DOMAIN engine'.stored_values
                   /\ engine'.stored_values[caller.hash_] = caller.val
                   /\ board'.stack # <<>>
                   /\ board'.stack[Len(board'.stack)].move = caller.move
                   /\ zobrist_hash_function(board', engine.hash_table)
                        = caller.hash_
          /\ FrameAt(engine, n, "loop")
             => (FrameAt(engine', n, "pop") \/ FrameAt(engine', n, "call"))]_vars

\* a root move's value was taken from the table, after an earlier move's
\* value had been computed by a call and stored
C22_Witness ==
    /\ active = 1
    /\ FrameAt(engine, 1, "pop") /\ Len(engine.frames) = 1
    /\ engine.frames[1].hit
    /\ calls = MaxCalls
    /\ engine.stored_values[engine.frames[1].hash_] = engine.frames[1].val

\* C23 as stated: no step of a search changes the value stored under a
\* fingerprint.
C23_StoredValueNeverChanges ==
    [][\A h \in DOMAIN engine.stored_values :
         h \in DOMAIN engine'.stored_values
           => engine'.stored_values[h] = engine.stored_values[h]]_vars

\* C24 as stated: the configured depth of the engine is at least 1 in
\* every state, the state after construction included.
C24_DepthAtLeastOne == engine.depth >= 1

Finite(v) == -Inf < v /\ v < Inf

\* C25: the values stored in the table, the value a frame of minimax got
\* for a move (from the table or from the call on the move's position) and
\* compares, and its running best once a move has been compared, are finite
\* scores.
C25_NodeValuesFinite ==
    /\ \A h \in DOMAIN engine.stored_values : Finite(engine.stored_values[h])
    /\ \A n \in DOMAIN engine.frames :
         LET fr == engine.frames[n]
         IN /\ fr.pc = "pop" => Finite(fr.val)
            /\ (fr.pc = "loop" /\ fr.move # NullMove) => Finite(fr.best_val)

\* a move led to a position without legal moves while depth remained: its
\* value, a finite score, is stored and compared at the root
C25_Witness ==
    /\ active = 1
    /\ Len(engine.frames) = 1 /\ engine.frames[1].pc = "pop"
    /\ engine.depth = 2
    /\ ~engine.frames[1].hit
    /\ legal_moves(board) = <<>>
    /\ engine.frames[1].hash_ \in DOMAIN engine.stored_values
    /\ Finite(engine.stored_values[engine.frames[1].hash_])
    /\ Finite(engine.frames[1].val)

\* the root moves the search examines, in order when the order is not
\* shuffled, and the value the search compared for one of them
Examined == MVV_LVA(board_at_call)

ExaminedValue(m) ==
    engine.stored_values[
        zobrist_hash_function(push(board_at_call, m), engine.hash_table)]

BestExamined ==
    LET vals == {ExaminedValue(m) : m \in Range(Examined.moves)}
    IN IF Truthy(engine.color) THEN SetMax(vals) ELSE SetMin(vals)

\* the root frame is about to compare the value of the move just examined
AtRootCompare ==
    active = 1 /\ Len(engine.frames) = 1 /\ engine.frames[1].pc = "pop"

\* C26: at the root, the recorded best move is replaced by the move just
\* examined when its value is strictly better than the running best (above
\* it for a White engine, below it for a Black one) and kept otherwise, a
\* value equal to the running best included; so the move returned has the
\* best of the examined values and, where the examination order is fixed,
\* is the earliest examined move that has it.
C26_EarliestBestMoveKept ==
    /\ [][AtRootCompare
            => LET fr == engine.frames[1]
                   better == IF Truthy(engine.color) THEN fr.val > fr.best_val
                             ELSE fr.val < fr.best_val
               IN engine'.best_move = IF better THEN fr.move
                                      ELSE engine.best_move]_vars
    /\ [](( Returned /\ engine.depth >= 1 /\ ~is_game_over(board_at_call))
           => /\ result.move \in Range(Examined.moves)
              /\ ExaminedValue(result.move) = BestExamined
              /\ ~Examined.shuffled
                   => \A i, j \in DOMAIN Examined.moves :
                        (Examined.moves[j] = result.move /\ i < j)
                        => ExaminedValue(Examined.moves[i]) # BestExamined)

\* the move returned is the first of several examined moves that share the
\* best value
C26_Witness ==
    /\ Returned /\ engine.depth >= 1 /\ ~is_game_over(board_at_call)
    /\ ~Examined.shuffled
    /\ result.move = Examined.moves[1]
    /\ \E j \in DOMAIN Examined.moves :
         j > 1 /\ ExaminedValue(Examined.moves[j]) = BestExamined

\* the step in which a call of move() or evaluate() returns
CallReturns == active = 1 /\ active' = 0

\* C27: a call that returns a move appends one score to
\* material_difference, the material of the position as it was handed in
\* and is handed back; a call that raises, and every step inside a search,
\* appends nothing; the move returned is best_move as the search left it.
C27_OneScorePerCall ==
    [][LET md == engine.material_difference
       IN /\ CallReturns
             => /\ result'.op = "move" /\ result'.raised = ""
                /\ board' = board_at_call
                /\ engine'.material_difference
                     = Append(md, Material(board_at_call, WHITE)
                                    - Material(board_at_call, BLACK))
                /\ result'.move = engine'.best_move
                /\ engine'.best_move = engine.best_move
                     \/ (AtRootCompare /\ engine'.best_move = engine.frames[1].move)
          /\ ~CallReturns => engine'.material_difference = md]_vars

\* a call returned a move and a later call raised: one score, that of the
\* first call's position
C27_Witness ==
    /\ result.op = "move" /\ result.raised # ""
    /\ calls = MaxCalls
    /\ engine.best_move # NullMove
    /\ Len(engine.material_difference) = 1

\* C28 as stated: for every game play_game has recorded, the number of
\* (white, black) material-difference pairs recorded for the game equals
\* the move count recorded for it.
C28_PairsEqualMoveCount ==
    \A i \in DOMAIN playground.all_move_counts :
        Len(playground.all_material_differences[i])
          = playground.all_move_counts[i]

\* C29 as stated: whenever no call of play_game or play_multiple_games is
\* in progress, the lists all_results, all_move_counts,
\* all_material_differences and game_pgns have the same length.
C29_ListsSameLength ==
    playground.pc = "idle" =>
        /\ Len(playground.all_results) = Len(playground.all_move_counts)
        /\ Len(playground.all_move_counts)
             = Len(playground.all_material_differences)
        /\ Len(playground.all_material_differences)
             = Len(playground.game_pgns)

\* C30 as stated: in every game the white engine was asked for a move only
\* with White to move on the board and the black engine only with Black to
\* move, and no engine was asked when the game was over or after an engine
\* had returned the null move.
C30_EngineAskedOnOwnTurn ==
    \A a \in playground.asked :
        /\ a.engine = "white" => a.turn = WHITE
        /\ a.engine = "black" => a.turn = BLACK
        /\ ~a.game_over
        /\ ~a.resigned

====
